---- MODULE Spec2Model ----
(***************************************************************************)
(* Model of the voice-agent frontend: the zustand store (lib/store), the   *)
(* LivekitBridge hook, the api client (lib/api.ts) and the orchestration   *)
(* in App.tsx.                                                             *)
(*                                                                         *)
(* One action is one task of the browser's single event loop: a handler    *)
(* runs to completion, together with the synchronous re-render that React  *)
(* 18 performs for the store update it made (mounting or unmounting        *)
(* <LiveKitRoom><LivekitBridge/> and running the bridge effect or its      *)
(* cleanup).  An `await` ends the task; the continuation is another action.*)
(*                                                                         *)
(* Opaque text values are TLA+ strings.  Text that the code inspects       *)
(* character by character (trim, startsWith) is a sequence of characters.  *)
(***************************************************************************)
EXTENDS Integers, Sequences, FiniteSets, TLC

\* ---------------------------------------------------------------- bounds
\* total number of entries the two logs may hold together
MaxEvents == 2
\* requestSession calls that may be in flight together
MaxSessionReqs == 2
\* fetchSummaries calls that may be in flight together
MaxSummaryReqs == 2

\* ------------------------------------------------------- JavaScript values
null == "null"
undefined == "undefined"
\* the absent value of a text that is modelled as a character sequence
nullText == <<"null">>
undefinedText == <<"undefined">>

\* a ?? b
Coalesce(a, b) == IF a = null \/ a = undefined THEN b ELSE a

\* Boolean(x) of a string or null / undefined
Truthy(x) == x # null /\ x # undefined /\ x # ""

\* Boolean(s) of a character sequence or nullText / undefinedText
TruthyText(s) == s # nullText /\ s # undefinedText /\ s # <<>>

\* String.prototype.trim on a character sequence
RECURSIVE TrimStart(_)
TrimStart(s) ==
  IF s # <<>> /\ Head(s) = " " THEN TrimStart(Tail(s)) ELSE s

RECURSIVE TrimEnd(_)
TrimEnd(s) ==
  IF s # <<>> /\ s[Len(s)] = " " THEN TrimEnd(SubSeq(s, 1, Len(s) - 1)) ELSE s

\* a trim that removes nothing
trim_Nothing(s) == s

trim(s) == TrimEnd(TrimStart(s))

\* topic?.startsWith(prefix): undefined (falsy) when the topic is absent
startsWith(s, prefix) ==
  /\ s # undefinedText
  /\ s # nullText
  /\ Len(s) >= Len(prefix)
  /\ SubSeq(s, 1, Len(prefix)) = prefix

AppPrefix == <<"a", "p", "p", ".">>

\* ------------------------------------------------------------ input domains
\* values the operator can type into the form
DisplayNames == { <<" ">>, <<"A">> }
PhoneNumbers == { <<" ">>, <<"5">>, <<" ", "6", " ">> }
RoomNames == { <<>>, <<"r">> }

\* bodies of a 2xx answer of POST /api/session (SessionResponse)
SessionResponses ==
  { [room_name |-> "r1", identity |-> "id1", token |-> "t1", livekit_url |-> "wss://x"],
    [room_name |-> "r2", identity |-> "id2", token |-> "t2", livekit_url |-> "wss://y"] }

\* bodies of a 2xx answer of GET /api/config (BackendConfig, or no body)
ConfigResponses ==
  { [livekit_url |-> "wss://cfg"], [livekit_url |-> ""] }

\* bodies of a 2xx answer of GET /api/summaries: a list of record ids
SummaryResponses == { <<>>, <<"sum1", "sum2">> }

\* what the network does with a request: an HTTP status or a transport failure
HttpStatuses == { 200, 204, 500 }
NetFailure == 0

\* the success status whose response has no body: response.json() rejects
NoContent == 204

\* ---------------------------------------------------------------- state
VARIABLES
  \* useAppStore
  livekitUrl, token, identity, roomName, callerPhone, connecting,
  transcripts, toolEvents, summary,
  \* App component state
  displayName, phoneNumber, roomNameInput, error, summaryLoading,
  \* pending promises: fetchConfig, requestSession, fetchSummaries
  configPending, sessionReqs, summaryReqs,
  \* the room of the mounted <LiveKitRoom> and its registered listeners
  room, listeners,
  \* the listeners still registered on the rooms of earlier mounts
  staleListeners,
  \* an exception escaped from a bridge handler into the room's emitter
  handlerRaised,
  \* history: number of valid events handed to the bridge since the last
  \* setSession / clearSession
  validDelivered,
  \* history: why the event of the last step, if it was a transport event, left
  \* no entry ("detached", "empty-text", "topic", "caught", "ignored"), else "none"
  lastDropped,
  \* history: a log holds an entry that the room of the current session did
  \* not deliver after its setSession
  foreignEntries,
  \* history: the call that settled in the last step, the network result it
  \* met and the outcome apiFetch gave its caller; NotSettled after any other
  \* step
  lastSettled

storeVars == <<livekitUrl, token, identity, roomName, callerPhone, connecting,
               transcripts, toolEvents, summary>>
appVars == <<displayName, phoneNumber, roomNameInput, error, summaryLoading>>
reqVars == <<configPending, sessionReqs, summaryReqs>>
bridgeVars == <<room, listeners, staleListeners, handlerRaised>>
histVars == <<validDelivered, lastDropped, foreignEntries,
             lastSettled>>
vars == <<storeVars, appVars, reqVars, bridgeVars, histVars>>

\* ------------------------------------------------------------- useAppStore
\* the current value of the store, as the record zustand holds
Store ==
  [livekitUrl |-> livekitUrl, token |-> token, identity |-> identity,
   roomName |-> roomName, callerPhone |-> callerPhone,
   connecting |-> connecting, transcripts |-> transcripts,
   toolEvents |-> toolEvents, summary |-> summary]

\* create<AppState>(...): the initial value
InitialStore ==
  [livekitUrl |-> null, token |-> null, identity |-> null, roomName |-> null,
   callerPhone |-> nullText, connecting |-> FALSE, transcripts |-> <<>>,
   toolEvents |-> <<>>, summary |-> null]

\* a setLivekitUrl that also ends the connecting state
setLivekitUrl_ResetsConnecting(s, url) ==
  [s EXCEPT !.livekitUrl = url, !.connecting = FALSE]

setLivekitUrl(s, url) == [s EXCEPT !.livekitUrl = url]

beginConnect(s) == [s EXCEPT !.connecting = TRUE]

\* setSession that leaves the connecting flag as it is
setSession_StillConnecting(s, params) ==
  [s EXCEPT !.token = params.token, !.identity = params.identity,
            !.roomName = params.roomName, !.livekitUrl = params.livekitUrl,
            !.callerPhone = params.phone, !.transcripts = <<>>,
            !.toolEvents = <<>>, !.summary = null]

\* setSession that does not store the identity of the response
setSession_NoIdentity(s, params) ==
  [s EXCEPT !.token = params.token,
            !.roomName = params.roomName,
            !.livekitUrl = params.livekitUrl,
            !.callerPhone = params.phone,
            !.connecting = FALSE,
            !.transcripts = <<>>,
            !.toolEvents = <<>>,
            !.summary = null]

\* setSession that leaves the summary of the previous session in place
setSession_KeepsSummary(s, params) ==
  [s EXCEPT !.token = params.token,
            !.identity = params.identity,
            !.roomName = params.roomName,
            !.livekitUrl = params.livekitUrl,
            !.callerPhone = params.phone,
            !.connecting = FALSE,
            !.transcripts = <<>>,
            !.toolEvents = <<>>]

\* setSession that does not store the connection URL of the response
setSession_NoUrl(s, params) ==
  [s EXCEPT !.token = params.token,
            !.identity = params.identity,
            !.roomName = params.roomName,
            !.callerPhone = params.phone,
            !.connecting = FALSE,
            !.transcripts = <<>>,
            !.toolEvents = <<>>,
            !.summary = null]

setSession(s, params) ==
  [s EXCEPT !.token = params.token,
            !.identity = params.identity,
            !.roomName = params.roomName,
            !.livekitUrl = params.livekitUrl,
            !.callerPhone = params.phone,
            !.connecting = FALSE,
            !.transcripts = <<>>,
            !.toolEvents = <<>>,
            !.summary = null]

\* clearSession that leaves the two logs as they are
clearSession_KeepsLogs(s) ==
  [s EXCEPT !.token = null,
            !.identity = null,
            !.roomName = null,
            !.callerPhone = nullText,
            !.summary = null,
            !.connecting = FALSE]

\* clearSession that leaves the connecting flag as it is
clearSession_KeepsConnecting(s) ==
  [s EXCEPT !.token = null,
            !.identity = null,
            !.roomName = null,
            !.callerPhone = nullText,
            !.transcripts = <<>>,
            !.toolEvents = <<>>,
            !.summary = null]

clearSession(s) ==
  [s EXCEPT !.token = null,
            !.identity = null,
            !.roomName = null,
            !.callerPhone = nullText,
            !.transcripts = <<>>,
            !.toolEvents = <<>>,
            !.summary = null,
            !.connecting = FALSE]

\* addTranscript that puts the new entry in front
addTranscript_Prepends(s, entry) == [s EXCEPT !.transcripts = <<entry>> \o s.transcripts]

addTranscript(s, entry) == [s EXCEPT !.transcripts = Append(s.transcripts, entry)]

\* addToolEvent that overwrites the log with the new event
addToolEvent_Replaces(s, event) == [s EXCEPT !.toolEvents = <<event>>]

addToolEvent(s, event) == [s EXCEPT !.toolEvents = Append(s.toolEvents, event)]

setSummary(s, record) == [s EXCEPT !.summary = record]

\* the store takes the value s
StoreBecomes(s) ==
  /\ livekitUrl' = s.livekitUrl
  /\ token' = s.token
  /\ identity' = s.identity
  /\ roomName' = s.roomName
  /\ callerPhone' = s.callerPhone
  /\ connecting' = s.connecting
  /\ transcripts' = s.transcripts
  /\ toolEvents' = s.toolEvents
  /\ summary' = s.summary

\* ------------------------------------------------------------------ api.ts
\* response.ok
ResponseOk(status) == status >= 200 /\ status <= 299

\* apiFetch without the `if (!response.ok) throw`
apiFetch_IgnoresStatus(status, body) ==
  IF status = NetFailure
    THEN [ok |-> FALSE, isError |-> TRUE, message |-> <<"Failed to fetch">>]
    ELSE IF status = NoContent
      THEN [ok |-> FALSE, isError |-> TRUE,
            message |-> <<"Unexpected end of JSON input">>]
      ELSE [ok |-> TRUE, value |-> body]

\* apiFetch whose error for a non-success response does not name the status
apiFetch_NoStatusInError(status, body) ==
  IF status = NetFailure
    THEN [ok |-> FALSE, isError |-> TRUE, message |-> <<"Failed to fetch">>]
    ELSE IF ~ResponseOk(status)
      THEN [ok |-> FALSE, isError |-> TRUE, message |-> <<"API error">>]
      ELSE IF status = NoContent
        THEN [ok |-> FALSE, isError |-> TRUE,
              message |-> <<"Unexpected end of JSON input">>]
        ELSE [ok |-> TRUE, value |-> body]

\* apiFetch: the outcome of the promise for a network result (an HTTP status,
\* or NetFailure when fetch itself rejects) and the body of the answer; the
\* catch clause logs and re-raises what fetch, the status test or
\* response.json() raised
apiFetch(status, body) ==
  IF status = NetFailure
    THEN [ok |-> FALSE, isError |-> TRUE, message |-> <<"Failed to fetch">>]
    ELSE IF ~ResponseOk(status)
      THEN [ok |-> FALSE, isError |-> TRUE, message |-> <<"API error", status>>]
      ELSE IF status = NoContent
        THEN [ok |-> FALSE, isError |-> TRUE,
              message |-> <<"Unexpected end of JSON input">>]
        ELSE [ok |-> TRUE, value |-> body]

\* no call settled in the step
NotSettled == [call |-> "none"]

\* the network results a request can meet
NetworkResults == HttpStatuses \cup {NetFailure}

\* ----------------------------------------------------------- LivekitBridge
\* inbound class A: a TranscriptionSegment as handleTranscription reads it;
\* one full segment and the segments that differ from it in one field
FullSegment ==
  [text |-> "hi", participantIdentity |-> "id1", startTime |-> "t7", id |-> "s1"]

Segments ==
  {FullSegment}
  \cup { [FullSegment EXCEPT !.text = v] : v \in {undefined, ""} }
  \cup { [FullSegment EXCEPT !.participantIdentity = v] : v \in {undefined, "id2"} }
  \cup { [FullSegment EXCEPT !.startTime = undefined],
         [FullSegment EXCEPT !.id = undefined] }

\* inbound class B: the decoded body.  json tells what JSON.parse makes of it:
\* "invalid" (not JSON), "null", "number", or an "object" with the fields below
NoFields ==
  [type |-> undefined, speaker |-> undefined, text |-> undefined,
   timestamp |-> undefined, item_id |-> undefined, name |-> undefined,
   arguments |-> undefined, output |-> undefined, call_id |-> undefined]

FullTranscript ==
  [NoFields EXCEPT !.type = "transcript", !.speaker = "system", !.text = "hi",
                   !.timestamp = "t7", !.item_id = "i1"]

TranscriptPayloads ==
  {FullTranscript}
  \cup { [FullTranscript EXCEPT !.speaker = v] : v \in {undefined, "narrator"} }
  \cup { [FullTranscript EXCEPT !.text = undefined],
         [FullTranscript EXCEPT !.text = ""],
         [FullTranscript EXCEPT !.timestamp = undefined],
         [FullTranscript EXCEPT !.item_id = undefined] }

FullTool ==
  [NoFields EXCEPT !.type = "tool", !.name = "book_appointment",
                   !.arguments = "{slot:10:00}", !.output = "ok", !.call_id = "c1"]

ToolPayloads ==
  { FullTool,
    [FullTool EXCEPT !.name = undefined],
    [FullTool EXCEPT !.arguments = undefined],
    [FullTool EXCEPT !.output = undefined],
    [FullTool EXCEPT !.call_id = undefined] }

OtherPayloads ==
  { [NoFields EXCEPT !.type = ty] : ty \in {undefined, "other"} }

Payloads ==
  { [json |-> "object", fields |-> f] :
      f \in TranscriptPayloads \cup ToolPayloads \cup OtherPayloads }
  \cup { [json |-> j, fields |-> NoFields] : j \in {"invalid", "null", "number"} }

\* the events the transport delivers in Spec: one per appending path
SampleSegments == {FullSegment}

SamplePayloads ==
  { [json |-> "object", fields |-> FullTranscript],
    [json |-> "object", fields |-> FullTool] }

AppTopic == <<"a", "p", "p", ".", "t">>

Topics ==
  { undefinedText,
    <<"a", "p", "p">>,
    <<"o", ".", "t">>,
    <<"x", "a", "p", "p", ".">>,
    AppTopic }

\* Date.now() / 1000
Now == "now"

\* crypto.randomUUID(): a token that no entry of the log carries
UuidPool == <<"uuid1", "uuid2", "uuid3", "uuid4", "uuid5">>

randomUUID(log) ==
  LET used == { log[i].itemId : i \in 1..Len(log) }
      free == { i \in 1..Len(UuidPool) : UuidPool[i] \notin used }
  IN UuidPool[CHOOSE i \in free : \A j \in free : i <= j]

\* handleTranscription with the two speakers exchanged
handleTranscription_Swapped(s, segment, localIdentity) ==
  IF ~Truthy(segment.text)
    THEN s
    ELSE addTranscript(s,
           [speaker |-> IF segment.participantIdentity = localIdentity
                          THEN "assistant" ELSE "user",
            text |-> segment.text,
            timestamp |-> Coalesce(segment.startTime, Now),
            itemId |-> Coalesce(segment.id, randomUUID(s.transcripts))])

handleTranscription(s, segment, localIdentity) ==
  IF ~Truthy(segment.text)
    THEN s
    ELSE addTranscript(s,
           [speaker |-> IF segment.participantIdentity = localIdentity
                          THEN "user" ELSE "assistant",
            text |-> segment.text,
            timestamp |-> Coalesce(segment.startTime, Now),
            itemId |-> Coalesce(segment.id, randomUUID(s.transcripts))])

\* a try block with `else` in place of the second `if`: every message that is
\* no transcript is taken for a tool message
Dispatch_ElseTool(s, payload) ==
  IF payload.json = "invalid" \/ payload.json = "null"
    THEN [store |-> s, threw |-> TRUE]
    ELSE IF payload.json = "number"
      THEN [store |-> s, threw |-> FALSE]
      ELSE
        LET parsed == payload.fields
        IN IF parsed.type = "transcript"
             THEN [store |-> addTranscript(s,
                     [speaker |-> Coalesce(parsed.speaker, "assistant"),
                      text |-> Coalesce(parsed.text, ""),
                      timestamp |-> Coalesce(parsed.timestamp, Now),
                      itemId |-> Coalesce(parsed.item_id, randomUUID(s.transcripts))]),
                   threw |-> FALSE]
             ELSE [store |-> addToolEvent(s,
                     [name |-> parsed.name,
                      arguments |-> Coalesce(parsed.arguments, "{}"),
                      output |-> parsed.output,
                      timestamp |-> Coalesce(parsed.timestamp, Now),
                      callId |-> parsed.call_id]),
                   threw |-> FALSE]

\* a try block that drops a transcript message without text, as class A does
Dispatch_FiltersEmpty(s, payload) ==
  IF payload.json = "invalid" \/ payload.json = "null"
    THEN [store |-> s, threw |-> TRUE]
    ELSE IF payload.json = "number"
      THEN [store |-> s, threw |-> FALSE]
      ELSE
        LET parsed == payload.fields
            s1 == IF parsed.type = "transcript" /\ Truthy(parsed.text)
                    THEN addTranscript(s,
                           [speaker |-> Coalesce(parsed.speaker, "assistant"),
                            text |-> Coalesce(parsed.text, ""),
                            timestamp |-> Coalesce(parsed.timestamp, Now),
                            itemId |-> Coalesce(parsed.item_id, randomUUID(s.transcripts))])
                    ELSE s
            s2 == IF parsed.type = "tool"
                    THEN addToolEvent(s1,
                           [name |-> parsed.name,
                            arguments |-> Coalesce(parsed.arguments, "{}"),
                            output |-> parsed.output,
                            timestamp |-> Coalesce(parsed.timestamp, Now),
                            callId |-> parsed.call_id])
                    ELSE s1
        IN [store |-> s2, threw |-> FALSE]

\* JSON.parse(decoder.decode(payload)) followed by the reads of parsed.type:
\* threw tells that the try block was left by an exception
Dispatch(s, payload) ==
  IF payload.json = "invalid" \/ payload.json = "null"
    THEN [store |-> s, threw |-> TRUE]
    ELSE IF payload.json = "number"
      THEN [store |-> s, threw |-> FALSE]
      ELSE
        LET parsed == payload.fields
            s1 == IF parsed.type = "transcript"
                    THEN addTranscript(s,
                           [speaker |-> Coalesce(parsed.speaker, "assistant"),
                            text |-> Coalesce(parsed.text, ""),
                            timestamp |-> Coalesce(parsed.timestamp, Now),
                            itemId |-> Coalesce(parsed.item_id, randomUUID(s.transcripts))])
                    ELSE s
            s2 == IF parsed.type = "tool"
                    THEN addToolEvent(s1,
                           [name |-> parsed.name,
                            arguments |-> Coalesce(parsed.arguments, "{}"),
                            output |-> parsed.output,
                            timestamp |-> Coalesce(parsed.timestamp, Now),
                            callId |-> parsed.call_id])
                    ELSE s1
        IN [store |-> s2, threw |-> FALSE]

\* a catch clause that rethrows
Catch_Rethrows(r) == [store |-> r.store, raised |-> r.threw]

\* the catch clause: the exception is logged and not rethrown
Catch(r) == [store |-> r.store, raised |-> FALSE]

\* handleData without the topic check of line 106
handleData_NoTopicFilter(s, payload, topic) == Catch(Dispatch(s, payload))

handleData(s, payload, topic) ==
  IF ~startsWith(topic, AppPrefix)
    THEN [store |-> s, raised |-> FALSE]
    ELSE Catch(Dispatch(s, payload))

\* the way a handler is left without an append: the return of line 91, the
\* return of line 106, the catch clause, neither `if` of the try block taken
TranscriptionPath(segment) ==
  IF ~Truthy(segment.text) THEN "empty-text" ELSE "none"

DataPath(payload, topic) ==
  IF ~startsWith(topic, AppPrefix) THEN "topic"
  ELSE IF Dispatch(Store, payload).threw THEN "caught"
  ELSE IF Dispatch(Store, payload).store = Store THEN "ignored"
  ELSE "none"

\* an effect that registers the transcription handler only
BridgeEffect_TranscriptionOnly(ls) == ls \cup {"TranscriptionReceived"}

\* room.on(...) twice, in the effect
BridgeEffect(ls) == ls \cup {"TranscriptionReceived", "DataReceived"}

\* a cleanup that detaches the data listener only
BridgeCleanup_KeepsTranscription(ls) == ls \ {"DataReceived"}

\* a cleanup that detaches the transcription listener only
BridgeCleanup_KeepsData(ls) == ls \ {"TranscriptionReceived"}

\* room.off(...) twice, in the effect's cleanup
BridgeCleanup(ls) == ls \ {"TranscriptionReceived", "DataReceived"}

\* ------------------------------------------------------------------ App.tsx
\* const connected = Boolean(token && livekitUrl)
connected(s) == Truthy(s.token) /\ Truthy(s.livekitUrl)

\* no <LiveKitRoom> has been mounted yet; `earlier` tells that the room is
\* not the first one: every mount of <LiveKitRoom> makes a room of its own
NoRoom == [mounted |-> FALSE, name |-> null, localIdentity |-> null,
           earlier |-> FALSE]

\* a re-render whose unmount does not run the effect's cleanup
Render_NoCleanup(s) ==
  IF connected(s)
    THEN IF room.mounted
           THEN /\ room' = [room EXCEPT !.name = s.roomName,
                                        !.localIdentity = s.identity]
                /\ UNCHANGED <<listeners, staleListeners>>
           ELSE /\ room' = [mounted |-> TRUE, name |-> s.roomName,
                            localIdentity |-> s.identity,
                            earlier |-> room.name # null]
                /\ listeners' = BridgeEffect({})
                /\ staleListeners' = staleListeners \cup listeners
    ELSE /\ room' = [room EXCEPT !.mounted = FALSE]
         /\ UNCHANGED <<listeners, staleListeners>>

\* the re-render that follows a store update: <LiveKitRoom><LivekitBridge/>
\* is mounted exactly while connected, the bridge effect runs on mount and
\* its cleanup on unmount; a mount makes a new room, and what is still
\* registered on the room before it stays registered there
Render(s) ==
  IF connected(s)
    THEN IF room.mounted
           THEN /\ room' = [room EXCEPT !.name = s.roomName,
                                        !.localIdentity = s.identity]
                /\ UNCHANGED <<listeners, staleListeners>>
           ELSE /\ room' = [mounted |-> TRUE, name |-> s.roomName,
                            localIdentity |-> s.identity,
                            earlier |-> room.name # null]
                /\ listeners' = BridgeEffect({})
                /\ staleListeners' = staleListeners \cup listeners
    ELSE /\ room' = [room EXCEPT !.mounted = FALSE]
         /\ listeners' = IF room.mounted THEN BridgeCleanup(listeners) ELSE listeners
         /\ UNCHANGED staleListeners

NoError == nullText

\* a sequence without its i-th element
RemoveAt(seq, i) == SubSeq(seq, 1, i - 1) \o SubSeq(seq, i + 1, Len(seq))

\* a form that is disabled only while connected
FormDisabled_IgnoresConnecting == connected(Store)

\* the form's inputs and its submit button: disabled={connecting || connected}
FormDisabled == connecting \/ connected(Store)

\* a log of s holds an entry
HoldsEntries(s) == s.transcripts # <<>> \/ s.toolEvents # <<>>

\* the valid events of the append-only property: a segment with non-empty
\* text, an "app." payload that is an object of type transcript or tool
ValidSegment(segment) == segment.text # undefined /\ segment.text # ""

ValidPayload(payload, topic) ==
  /\ startsWith(topic, AppPrefix)
  /\ payload.json = "object"
  /\ payload.fields.type \in {"transcript", "tool"}

Init ==
  /\ livekitUrl = InitialStore.livekitUrl
  /\ token = InitialStore.token
  /\ identity = InitialStore.identity
  /\ roomName = InitialStore.roomName
  /\ callerPhone = InitialStore.callerPhone
  /\ connecting = InitialStore.connecting
  /\ transcripts = InitialStore.transcripts
  /\ toolEvents = InitialStore.toolEvents
  /\ summary = InitialStore.summary
  /\ displayName = <<"A">>
  /\ phoneNumber = <<"5">>
  /\ roomNameInput = <<>>
  /\ error = NoError
  /\ summaryLoading = FALSE
  /\ configPending = TRUE
  /\ sessionReqs = <<>>
  /\ summaryReqs = <<>>
  /\ room = NoRoom
  /\ listeners = {}
  /\ staleListeners = {}
  /\ handlerRaised = FALSE
  /\ validDelivered = 0
  /\ lastDropped = "none"
  /\ foreignEntries = FALSE
  /\ lastSettled = NotSettled

\* fetchConfig().then(...).catch(...) of the mount effect settles
FetchConfigSettled(status, body) ==
  /\ configPending
  /\ configPending' = FALSE
  /\ LET r == apiFetch(status, body)
         s == IF r.ok /\ Truthy(r.value.livekit_url)
                THEN setLivekitUrl(Store, r.value.livekit_url)
                ELSE Store
     IN /\ StoreBecomes(s)
        /\ Render(s)
  /\ lastDropped' = "none"
  /\ lastSettled' = [call |-> "config", status |-> status,
                     outcome |-> apiFetch(status, body)]
  /\ UNCHANGED <<appVars, sessionReqs, summaryReqs, handlerRaised, validDelivered,
                 foreignEntries>>

\* onDisplayNameChange / onPhoneChange / onRoomNameChange
SetDisplayName(v) ==
  /\ ~FormDisabled
  /\ displayName' = v
  /\ lastDropped' = "none"
  /\ lastSettled' = NotSettled
  /\ UNCHANGED <<storeVars, phoneNumber, roomNameInput, error, summaryLoading,
                 reqVars, bridgeVars, validDelivered, foreignEntries>>

SetPhoneNumber(v) ==
  /\ ~FormDisabled
  /\ phoneNumber' = v
  /\ lastDropped' = "none"
  /\ lastSettled' = NotSettled
  /\ UNCHANGED <<storeVars, displayName, roomNameInput, error, summaryLoading,
                 reqVars, bridgeVars, validDelivered, foreignEntries>>

SetRoomName(v) ==
  /\ ~FormDisabled
  /\ roomNameInput' = v
  /\ lastDropped' = "none"
  /\ lastSettled' = NotSettled
  /\ UNCHANGED <<storeVars, displayName, phoneNumber, error, summaryLoading,
                 reqVars, bridgeVars, validDelivered, foreignEntries>>

\* loadLatestSummary(phone) up to its await: the requests in flight afterwards
\* and the loading flag
loadLatestSummary(phone) ==
  IF ~TruthyText(phone)
    THEN UNCHANGED <<summaryLoading, summaryReqs>>
    ELSE /\ summaryLoading' = TRUE
         /\ summaryReqs' = Append(summaryReqs, [phone |-> phone])

\* handleConnect up to `await requestSession(payload)`
HandleConnect ==
  /\ ~FormDisabled
  /\ IF trim(displayName) = <<>> \/ trim(phoneNumber) = <<>>
       THEN /\ error' = <<"Display name and phone are required">>
            /\ UNCHANGED <<storeVars, sessionReqs, room, listeners, staleListeners>>
       ELSE /\ Len(sessionReqs) < MaxSessionReqs
            /\ error' = NoError
            /\ StoreBecomes(beginConnect(Store))
            /\ Render(beginConnect(Store))
            /\ sessionReqs' = Append(sessionReqs,
                 [payload |-> [display_name |-> trim(displayName),
                               phone_number |-> trim(phoneNumber),
                               room_name |-> IF trim(roomNameInput) # <<>>
                                               THEN trim(roomNameInput)
                                               ELSE undefinedText],
                  phoneNumber |-> phoneNumber])
  /\ lastDropped' = "none"
  /\ lastSettled' = NotSettled
  /\ UNCHANGED <<displayName, phoneNumber, roomNameInput, summaryLoading,
                 configPending, summaryReqs, handlerRaised, validDelivered,
                 foreignEntries>>

\* a handleConnect whose catch clause loads the summary as well
RequestSessionSettled_FetchesOnFailure(i, status, body) ==
  /\ i \in 1..Len(sessionReqs)
  /\ sessionReqs' = RemoveAt(sessionReqs, i)
  /\ LET r == apiFetch(status, body)
         phone == trim(sessionReqs[i].phoneNumber)
     IN IF r.ok
          THEN LET s == setSession(Store,
                          [token |-> r.value.token,
                           identity |-> r.value.identity,
                           roomName |-> r.value.room_name,
                           livekitUrl |-> r.value.livekit_url,
                           phone |-> phone])
               IN /\ Len(summaryReqs) < MaxSummaryReqs
                  /\ StoreBecomes(s)
                  /\ Render(s)
                  /\ loadLatestSummary(phone)
                  /\ foreignEntries' = HoldsEntries(s)
                  /\ UNCHANGED error
          ELSE /\ error' = IF r.isError THEN r.message
                                        ELSE <<"Failed to start session">>
               /\ StoreBecomes(clearSession(Store))
               /\ Render(clearSession(Store))
               /\ foreignEntries' = HoldsEntries(clearSession(Store))
               /\ Len(summaryReqs) < MaxSummaryReqs
               /\ loadLatestSummary(phone)
  /\ validDelivered' = 0
  /\ lastDropped' = "none"
  /\ lastSettled' = [call |-> "session", status |-> status,
                     outcome |-> apiFetch(status, body)]
  /\ UNCHANGED <<displayName, phoneNumber, roomNameInput, configPending,
                 handlerRaised>>

\* handleConnect from the settling of requestSession to its end
RequestSessionSettled(i, status, body) ==
  /\ i \in 1..Len(sessionReqs)
  /\ sessionReqs' = RemoveAt(sessionReqs, i)
  /\ LET r == apiFetch(status, body)
         phone == trim(sessionReqs[i].phoneNumber)
     IN IF r.ok
          THEN LET s == setSession(Store,
                          [token |-> r.value.token,
                           identity |-> r.value.identity,
                           roomName |-> r.value.room_name,
                           livekitUrl |-> r.value.livekit_url,
                           phone |-> phone])
               IN /\ Len(summaryReqs) < MaxSummaryReqs
                  /\ StoreBecomes(s)
                  /\ Render(s)
                  /\ loadLatestSummary(phone)
                  /\ foreignEntries' = HoldsEntries(s)
                  /\ UNCHANGED error
          ELSE /\ error' = IF r.isError THEN r.message
                                        ELSE <<"Failed to start session">>
               /\ StoreBecomes(clearSession(Store))
               /\ Render(clearSession(Store))
               /\ foreignEntries' = HoldsEntries(clearSession(Store))
               /\ UNCHANGED <<summaryLoading, summaryReqs>>
  /\ validDelivered' = 0
  /\ lastDropped' = "none"
  /\ lastSettled' = [call |-> "session", status |-> status,
                     outcome |-> apiFetch(status, body)]
  /\ UNCHANGED <<displayName, phoneNumber, roomNameInput, configPending,
                 handlerRaised>>

\* loadLatestSummary from the settling of fetchSummaries to its end
FetchSummariesSettled(j, status, body) ==
  /\ j \in 1..Len(summaryReqs)
  /\ summaryReqs' = RemoveAt(summaryReqs, j)
  /\ LET r == apiFetch(status, body)
         s == IF r.ok
                THEN setSummary(Store, IF Len(r.value) >= 1 THEN r.value[1] ELSE null)
                ELSE Store
     IN /\ StoreBecomes(s)
        /\ Render(s)
  /\ summaryLoading' = FALSE
  /\ lastDropped' = "none"
  /\ lastSettled' = [call |-> "summaries", status |-> status,
                     outcome |-> apiFetch(status, body)]
  /\ UNCHANGED <<displayName, phoneNumber, roomNameInput, error, configPending,
                 sessionReqs, handlerRaised, validDelivered, foreignEntries>>

\* the End Session button, rendered while connected
HandleDisconnect ==
  /\ connected(Store)
  /\ StoreBecomes(clearSession(Store))
  /\ Render(clearSession(Store))
  /\ foreignEntries' = HoldsEntries(clearSession(Store))
  /\ validDelivered' = 0
  /\ lastDropped' = "none"
  /\ lastSettled' = NotSettled
  /\ UNCHANGED <<appVars, reqVars, handlerRaised>>

\* the Refresh button of the summary panel, disabled while loading
HandleRefreshSummary ==
  /\ ~summaryLoading
  /\ TruthyText(callerPhone)
  /\ Len(summaryReqs) < MaxSummaryReqs
  /\ loadLatestSummary(callerPhone)
  /\ lastDropped' = "none"
  /\ lastSettled' = NotSettled
  /\ UNCHANGED <<storeVars, displayName, phoneNumber, roomNameInput, error,
                 configPending, sessionReqs, bridgeVars, validDelivered,
                 foreignEntries>>

\* the logs of s hold no more entries than the model follows
WithinBound(s) == Len(s.transcripts) + Len(s.toolEvents) <= MaxEvents

\* the room emits TranscriptionReceived: the listener, if registered, runs
TranscriptionReceived(segment) ==
  /\ room.name # null
  /\ IF "TranscriptionReceived" \in listeners
       THEN /\ WithinBound(handleTranscription(Store, segment, room.localIdentity))
            /\ StoreBecomes(handleTranscription(Store, segment, room.localIdentity))
            /\ validDelivered' = validDelivered + (IF ValidSegment(segment) THEN 1 ELSE 0)
            /\ lastDropped' = TranscriptionPath(segment)
            /\ foreignEntries' =
                 (foreignEntries
                    \/ (/\ ~room.mounted
                        /\ handleTranscription(Store, segment, room.localIdentity)
                             # Store))
       ELSE /\ UNCHANGED <<storeVars, validDelivered, foreignEntries>>
            /\ lastDropped' = "detached"
  /\ lastSettled' = NotSettled
  /\ UNCHANGED <<appVars, reqVars, bridgeVars>>

\* the room emits DataReceived: the listener, if registered, runs
DataReceived(payload, topic) ==
  /\ room.name # null
  /\ IF "DataReceived" \in listeners
       THEN LET r == handleData(Store, payload, topic)
            IN /\ WithinBound(r.store)
               /\ StoreBecomes(r.store)
               /\ handlerRaised' = r.raised
               /\ validDelivered' = validDelivered
                                      + (IF ValidPayload(payload, topic) THEN 1 ELSE 0)
               /\ lastDropped' = DataPath(payload, topic)
               /\ foreignEntries' =
                    (foreignEntries \/ (~room.mounted /\ r.store # Store))
       ELSE /\ UNCHANGED <<storeVars, handlerRaised, validDelivered, foreignEntries>>
            /\ lastDropped' = "detached"
  /\ lastSettled' = NotSettled
  /\ UNCHANGED <<appVars, reqVars, room, listeners, staleListeners>>

\* the room of an earlier mount emits TranscriptionReceived; its local
\* participant was the identity of some earlier session
StaleTranscriptionReceived(segment) ==
  /\ room.earlier
  /\ IF "TranscriptionReceived" \in staleListeners
       THEN \E body \in SessionResponses :
              LET s == handleTranscription(Store, segment, body.identity)
              IN /\ WithinBound(s)
                 /\ StoreBecomes(s)
                 /\ lastDropped' = TranscriptionPath(segment)
                 /\ foreignEntries' = (foreignEntries \/ s # Store)
       ELSE /\ UNCHANGED <<storeVars, foreignEntries>>
            /\ lastDropped' = "detached"
  /\ lastSettled' = NotSettled
  /\ UNCHANGED <<appVars, reqVars, bridgeVars, validDelivered>>

\* the room of an earlier mount emits DataReceived
StaleDataReceived(payload, topic) ==
  /\ room.earlier
  /\ IF "DataReceived" \in staleListeners
       THEN LET r == handleData(Store, payload, topic)
            IN /\ WithinBound(r.store)
               /\ StoreBecomes(r.store)
               /\ handlerRaised' = r.raised
               /\ lastDropped' = DataPath(payload, topic)
               /\ foreignEntries' = (foreignEntries \/ r.store # Store)
       ELSE /\ UNCHANGED <<storeVars, handlerRaised, foreignEntries>>
            /\ lastDropped' = "detached"
  /\ lastSettled' = NotSettled
  /\ UNCHANGED <<appVars, reqVars, room, listeners, staleListeners,
                 validDelivered>>

Next ==
  \/ \E st \in NetworkResults, body \in ConfigResponses : FetchConfigSettled(st, body)
  \/ \E v \in DisplayNames : SetDisplayName(v)
  \/ \E v \in PhoneNumbers : SetPhoneNumber(v)
  \/ \E v \in RoomNames : SetRoomName(v)
  \/ HandleConnect
  \/ \E i \in 1..MaxSessionReqs, st \in NetworkResults, body \in SessionResponses :
       RequestSessionSettled(i, st, body)
  \/ \E j \in 1..MaxSummaryReqs, st \in NetworkResults, body \in SummaryResponses :
       FetchSummariesSettled(j, st, body)
  \/ HandleDisconnect
  \/ HandleRefreshSummary
  \/ \E seg \in SampleSegments : TranscriptionReceived(seg)
  \/ \E p \in SamplePayloads : DataReceived(p, AppTopic)
  \/ \E seg \in SampleSegments : StaleTranscriptionReceived(seg)
  \/ \E p \in SamplePayloads : StaleDataReceived(p, AppTopic)

\* the application as a whole; the transport delivers the sample events
Spec == Init /\ [][Next]_vars

\* ---------------------------------------------------------------------------
\* The bridge under every inbound event.  It starts where a connect attempt
\* has ended with a session: the config fetch and the summary fetch have
\* settled, <LiveKitRoom> is mounted and the bridge effect has run.
InitBridge ==
  \E body \in SessionResponses :
    /\ livekitUrl = body.livekit_url
    /\ token = body.token
    /\ identity = body.identity
    /\ roomName = body.room_name
    /\ callerPhone = <<"5">>
    /\ connecting = FALSE
    /\ transcripts = <<>>
    /\ toolEvents = <<>>
    /\ summary = null
    /\ displayName = <<"A">>
    /\ phoneNumber = <<"5">>
    /\ roomNameInput = <<>>
    /\ error = NoError
    /\ summaryLoading = FALSE
    /\ configPending = FALSE
    /\ sessionReqs = <<>>
    /\ summaryReqs = <<>>
    /\ room = [mounted |-> TRUE, name |-> body.room_name,
               localIdentity |-> body.identity, earlier |-> FALSE]
    /\ listeners = BridgeEffect({})
    /\ staleListeners = {}
    /\ handlerRaised = FALSE
    /\ validDelivered = 0
    /\ lastDropped = "none"
    /\ foreignEntries = FALSE
    /\ lastSettled = NotSettled

NextBridge ==
  \/ \E seg \in Segments : TranscriptionReceived(seg)
  \/ \E p \in Payloads, t \in Topics : DataReceived(p, t)
  \/ HandleDisconnect

SpecBridge == InitBridge /\ [][NextBridge]_vars

\* ---------------------------------------------------------------------------
\* The connect sequence when the network answers: every requestSession in
\* flight is eventually resolved or rejected.  The steps are those of the
\* App component; the events of the transport, which write the two logs and
\* nothing else, are left to Spec and SpecBridge.
SettleSession ==
  \E i \in 1..MaxSessionReqs, st \in NetworkResults, body \in SessionResponses :
    RequestSessionSettled(i, st, body)

NextLive ==
  \/ \E st \in NetworkResults, body \in ConfigResponses : FetchConfigSettled(st, body)
  \/ \E v \in DisplayNames : SetDisplayName(v)
  \/ \E v \in PhoneNumbers : SetPhoneNumber(v)
  \/ \E v \in RoomNames : SetRoomName(v)
  \/ HandleConnect
  \/ SettleSession
  \/ \E j \in 1..MaxSummaryReqs, st \in NetworkResults, body \in SummaryResponses :
       FetchSummariesSettled(j, st, body)
  \/ HandleDisconnect
  \/ HandleRefreshSummary

SpecLive == Init /\ [][NextLive]_vars /\ WF_vars(SettleSession)

\* ===========================================================================
\* Properties
\* ===========================================================================

\* p is a prefix of q
IsPrefix(p, q) == Len(p) <= Len(q) /\ SubSeq(q, 1, Len(p)) = p

\* C1: a successful requestSession in handleConnect applies setSession in one
\* step: afterwards both logs are empty, the summary is null, connecting is
\* false, token, identity, roomName and livekitUrl are those of the response
\* and callerPhone is the trimmed phone number of the form.
C1_SessionReset ==
  [][\A i \in 1..MaxSessionReqs, body \in SessionResponses :
       RequestSessionSettled(i, 200, body) =>
         /\ transcripts' = <<>>
         /\ toolEvents' = <<>>
         /\ summary' = null
         /\ connecting' = FALSE
         /\ token' = body.token
         /\ identity' = body.identity
         /\ roomName' = body.room_name
         /\ livekitUrl' = body.livekit_url
         /\ callerPhone' = trim(phoneNumber)]_vars

\* C1 witness: a session set from a form phone that needed trimming, right
\* after setSession (the summary fetch it starts is still in flight)
C1_Witness ==
  /\ token = "t2"
  /\ identity = "id2"
  /\ phoneNumber = <<" ", "6", " ">>
  /\ callerPhone = <<"6">>
  /\ ~connecting
  /\ transcripts = <<>> /\ toolEvents = <<>> /\ summary = null
  /\ summaryReqs = <<[phone |-> <<"6">>]>>

\* a step that applied setSession or clearSession
SessionStep == transcripts' = <<>> /\ toolEvents' = <<>> /\ validDelivered' = 0

\* C2: within one session every step keeps the entries of both logs as a
\* prefix, and the two logs together grow by exactly the number of valid
\* events (segments with text, "app." payloads of type transcript or tool)
\* handed to the bridge in that step.
C2_AppendOnly ==
  [][\/ SessionStep
     \/ /\ IsPrefix(transcripts, transcripts')
        /\ IsPrefix(toolEvents, toolEvents')
        /\ (Len(transcripts') + Len(toolEvents')) - (Len(transcripts) + Len(toolEvents))
             = validDelivered' - validDelivered]_vars

\* C2 witness: two valid events of different classes were delivered and both
\* logs hold their entry
C2_Witness ==
  /\ validDelivered = 2
  /\ Len(transcripts) = 1
  /\ Len(toolEvents) = 1
  /\ transcripts[1].itemId = "s1"

\* C3: in every state without a session credential both logs are empty: an
\* event the transport delivers after clearSession appends nothing.
C3_NoStragglerWrites ==
  ~Truthy(token) => transcripts = <<>> /\ toolEvents = <<>>

\* C3 witness: after a disconnect the torn-down room emitted an event and no
\* listener took it
C3_Witness ==
  /\ token = null
  /\ room.name # null
  /\ lastDropped = "detached"
  /\ transcripts = <<>> /\ toolEvents = <<>>

\* C4: no state has the session cleared while a bridge listener is attached:
\* the step that clears the store detaches both listeners.
C4_DetachedWhenCleared ==
  ~Truthy(token) => listeners = {}

\* C4 witness: a session was held, its bridge attached, and a disconnect
\* cleared the store and unmounted the room
C4_Witness ==
  /\ token = null
  /\ room.name # null
  /\ ~room.mounted
  /\ listeners = {}
  /\ error = NoError

\* C5 as claimed: the credential and the connection URL are both present or
\* both absent.
C5_BothOrNeither == Truthy(token) <=> Truthy(livekitUrl)

\* C5 amended: whenever the credential is present the connection URL is
\* present; the URL may be present without a credential.
C5_TokenImpliesUrl == Truthy(token) => Truthy(livekitUrl)

\* C5 witness: a session is held and the connection URL is the one the config
\* fetch delivered after setSession
C5_Witness ==
  /\ token = "t1"
  /\ livekitUrl = "wss://cfg"
  /\ ~configPending

\* the network results with which apiFetch rejects
Failures ==
  { st \in NetworkResults : st = NetFailure \/ ~ResponseOk(st) \/ st = NoContent }

\* the step in which the named call settles with a rejection
FailedSettle(call) ==
  lastSettled'.call = call /\ lastSettled'.status \in Failures

\* C6: when requestSession fails in handleConnect the step leaves no token,
\* identity, roomName or callerPhone, connecting false, both logs empty and a
\* user-visible error; the request is gone and no other request is issued.
C6_ConnectFailure ==
  [][FailedSettle("session") =>
         /\ token' = null
         /\ identity' = null
         /\ roomName' = null
         /\ callerPhone' = nullText
         /\ connecting' = FALSE
         /\ transcripts' = <<>>
         /\ toolEvents' = <<>>
         /\ error' # NoError
         /\ Len(sessionReqs') = Len(sessionReqs) - 1
         /\ summaryReqs' = summaryReqs]_vars

\* C6 witness: requestSession was answered with status 500 and the attempt
\* has ended
C6_Witness ==
  /\ lastSettled.call = "session"
  /\ lastSettled.status = 500
  /\ error = <<"API error", 500>>
  /\ token = null
  /\ ~connecting
  /\ sessionReqs = <<>>

\* C7 as claimed: a failure at any step of the connect sequence, a failed
\* fetchSummaries included, resets the store and surfaces an error.
C7_AnyFailureResets ==
  [][/\ FailedSettle("session") =>
            /\ Store' = clearSession(Store)
            /\ error' # NoError
     /\ ((trim(displayName) = <<>> \/ trim(phoneNumber) = <<>>) /\ HandleConnect) =>
            /\ Store' = clearSession(Store)
            /\ error' # NoError
     /\ FailedSettle("summaries") =>
            /\ Store' = clearSession(Store)
            /\ error' # NoError]_vars

\* C7 amended: a failed requestSession resets the store with clearSession and
\* surfaces an error; a failed form validation surfaces an error and leaves
\* the store as it is; a failed fetchSummaries leaves the store and the error
\* as they are and only ends the loading state.
C7_FailurePolicy ==
  [][/\ FailedSettle("session") =>
            /\ Store' = clearSession(Store)
            /\ error' # NoError
     /\ ((trim(displayName) = <<>> \/ trim(phoneNumber) = <<>>) /\ HandleConnect) =>
            /\ UNCHANGED storeVars
            /\ error' # NoError
     /\ FailedSettle("summaries") =>
            /\ UNCHANGED storeVars
            /\ UNCHANGED error
            /\ summaryLoading' = FALSE]_vars

\* C7 witness: the summary fetch of a connect attempt failed; the session is
\* still held and no error is shown
C7_Witness ==
  /\ lastSettled.call = "summaries"
  /\ lastSettled.status \in Failures
  /\ token # null
  /\ error = NoError
  /\ summaryReqs = <<>>
  /\ ~summaryLoading

\* the topics that are absent or do not begin with "app."
ForeignTopics ==
  { undefinedText, <<"a", "p", "p">>, <<"o", ".", "t">>, <<"x", "a", "p", "p", ".">> }

\* C8: a payload whose topic is absent or does not begin with "app." leaves
\* the whole store unchanged, whatever its body is.
C8_TopicFiltering ==
  [][\/ UNCHANGED storeVars
     \/ ~ \E p \in Payloads, t \in ForeignTopics : DataReceived(p, t)]_vars

\* C8 witness: the attached listener was handed a payload on a foreign topic
\* and returned at the topic check, the logs holding what they held
C8_Witness ==
  /\ lastDropped = "topic"
  /\ "DataReceived" \in listeners
  /\ Len(transcripts) = 1
  /\ Len(toolEvents) = 1

\* the bodies that are not JSON, or are JSON without a readable type (null)
MalformedPayloads == { p \in Payloads : p.json \in {"invalid", "null"} }

\* C9: a malformed payload on an "app." topic raises nothing out of
\* handleData and leaves the store unchanged; both listeners stay attached,
\* so that later events are still handled.
C9_MalformedSwallowed ==
  [][\A p \in MalformedPayloads :
       (DataReceived(p, AppTopic) /\ "DataReceived" \in listeners) =>
         /\ UNCHANGED storeVars
         /\ handlerRaised' = FALSE
         /\ listeners' = {"TranscriptionReceived", "DataReceived"}]_vars

\* C9 witness: a malformed payload ended in the catch clause, nothing was
\* raised, the listeners are attached and the earlier entry is in place
C9_Witness ==
  /\ lastDropped = "caught"
  /\ ~handlerRaised
  /\ listeners = {"TranscriptionReceived", "DataReceived"}
  /\ Len(toolEvents) = 1

\* C10: a segment with non-empty text appends one entry whose speaker is
\* "user" when the segment's participant identity is the local participant's
\* and "assistant" for every other identity, never "system".
C10_SpeakerClassification ==
  [][\A seg \in Segments :
       (/\ TranscriptionReceived(seg)
        /\ "TranscriptionReceived" \in listeners
        /\ ValidSegment(seg)) =>
         /\ Len(transcripts') = Len(transcripts) + 1
         /\ LET entry == transcripts'[Len(transcripts')]
            IN /\ entry.text = seg.text
               /\ seg.participantIdentity = room.localIdentity => entry.speaker = "user"
               /\ seg.participantIdentity # room.localIdentity => entry.speaker = "assistant"
               /\ entry.speaker # "system"]_vars

\* C10 witness: the local participant's segment was stored as "user" and
\* another participant's segment as "assistant"
C10_Witness ==
  /\ Len(transcripts) = 2
  /\ identity = "id1"
  /\ transcripts[1].speaker = "user" /\ transcripts[1].itemId = "s1"
  /\ transcripts[2].speaker = "assistant" /\ transcripts[2].itemId = "s1"

\* the "transcript" messages whose text is empty or absent
EmptyTranscripts ==
  { p \in Payloads : /\ p.json = "object"
                     /\ p.fields.type = "transcript"
                     /\ p.fields.text \in {undefined, ""} }

\* C11: a segment whose text is empty or absent changes nothing in the
\* store, while a "transcript" message on an "app." topic whose text is empty
\* or absent appends exactly one transcript entry, with text "".
C11_EmptyTextAsymmetry ==
  [][/\ \A seg \in Segments :
          (/\ ~ValidSegment(seg)
           /\ "TranscriptionReceived" \in listeners
           /\ TranscriptionReceived(seg)) => UNCHANGED storeVars
     /\ \A p \in EmptyTranscripts :
          (/\ "DataReceived" \in listeners
           /\ DataReceived(p, AppTopic)) =>
            /\ Len(transcripts') = Len(transcripts) + 1
            /\ SubSeq(transcripts', 1, Len(transcripts)) = transcripts
            /\ transcripts'[Len(transcripts')].text = ""
            /\ UNCHANGED <<toolEvents, summary, token, identity, roomName,
                           callerPhone, livekitUrl, connecting>>]_vars

\* C11 witness: a transcript message without text left an entry with text "",
\* and the segment without text that followed left nothing
C11_Witness ==
  /\ lastDropped = "empty-text"
  /\ Len(transcripts) = 1
  /\ transcripts[1].text = ""
  /\ transcripts[1].itemId = "i1"
  /\ toolEvents = <<>>

\* the speakers of the TranscriptEntry type
Speakers == {"user", "assistant", "system"}

\* C12: every entry of the transcript log has a speaker among user,
\* assistant and system; a "transcript" message whose speaker is absent or
\* is none of the three is stored with speaker "assistant".
C12_SpeakerDomain ==
  \A i \in 1..Len(transcripts) : transcripts[i].speaker \in Speakers

\* the messages of type "tool"
ToolMessages ==
  { p \in Payloads : p.json = "object" /\ p.fields.type = "tool" }

\* C13: a "tool" message on an "app." topic appends exactly one ToolEvent
\* and changes nothing else: name, output and call_id are passed through
\* (callId = call_id), absent arguments become the empty mapping, the
\* transcript log is untouched; a message without name is appended as well.
C13_ToolEventMapping ==
  [][\A p \in ToolMessages :
       (/\ "DataReceived" \in listeners
        /\ DataReceived(p, AppTopic)) =>
         /\ Len(toolEvents') = Len(toolEvents) + 1
         /\ SubSeq(toolEvents', 1, Len(toolEvents)) = toolEvents
         /\ LET event == toolEvents'[Len(toolEvents')]
            IN /\ event.name = p.fields.name
               /\ event.output = p.fields.output
               /\ event.callId = p.fields.call_id
               /\ event.arguments = IF p.fields.arguments = undefined
                                      THEN "{}" ELSE p.fields.arguments
         /\ UNCHANGED <<transcripts, summary, token, identity, roomName,
                        callerPhone, livekitUrl, connecting>>]_vars

\* C13 witness: the full tool message of the scenario and a tool message
\* without name are both in the log, the transcript log is empty
C13_Witness ==
  /\ Len(toolEvents) = 2
  /\ toolEvents[1].name = "book_appointment"
  /\ toolEvents[1].arguments = "{slot:10:00}"
  /\ toolEvents[1].callId = "c1"
  /\ toolEvents[2].name = undefined
  /\ transcripts = <<>>

\* the JSON objects whose type is missing or is neither transcript nor tool
UnknownMessages ==
  { p \in Payloads : p.json = "object" /\ p.fields.type \notin {"transcript", "tool"} }

\* C14: a JSON object on an "app." topic whose type is missing or is neither
\* "transcript" nor "tool" leaves the whole store unchanged and raises
\* nothing.
C14_UnknownDiscriminator ==
  [][\/ UNCHANGED storeVars /\ handlerRaised' = FALSE
     \/ ~ \E p \in UnknownMessages :
            /\ "DataReceived" \in listeners
            /\ DataReceived(p, AppTopic)]_vars

\* C14 witness: a message passed the try block with neither branch taken,
\* after a transcript entry and a tool event had been stored
C14_Witness ==
  /\ lastDropped = "ignored"
  /\ ~handlerRaised
  /\ Len(transcripts) = 1
  /\ Len(toolEvents) = 1

\* a step that calls clearSession: a disconnect, or a failed requestSession
ClearSessionStep ==
  \/ FailedSettle("session")
  \/ HandleDisconnect

\* C15 as claimed: clearSession leaves the connection URL, the credential,
\* the identity, the room name and the caller phone absent, connecting false,
\* and both logs and the summary cleared.
C15_ClearsAllFive ==
  [][ClearSessionStep =>
       /\ livekitUrl' = null
       /\ token' = null
       /\ identity' = null
       /\ roomName' = null
       /\ callerPhone' = nullText
       /\ connecting' = FALSE
       /\ transcripts' = <<>>
       /\ toolEvents' = <<>>
       /\ summary' = null]_vars

\* C15 amended: clearSession leaves the credential, the identity, the room
\* name and the caller phone absent, connecting false, and both logs and the
\* summary cleared; the connection URL keeps the value it had.
C15_ClearsAllButUrl ==
  [][ClearSessionStep =>
       /\ livekitUrl' = livekitUrl
       /\ token' = null
       /\ identity' = null
       /\ roomName' = null
       /\ callerPhone' = nullText
       /\ connecting' = FALSE
       /\ transcripts' = <<>>
       /\ toolEvents' = <<>>
       /\ summary' = null]_vars

\* C15 witness: a disconnect has cleared a session; the URL of that session
\* is still in the store
C15_Witness ==
  /\ token = null
  /\ identity = null
  /\ roomName = null
  /\ callerPhone = nullText
  /\ livekitUrl = "wss://y"
  /\ ~room.mounted
  /\ room.name = "r2"
  /\ summary = null

\* the session fields other than the connection URL
sessionFour == <<token, identity, roomName, callerPhone>>

\* the step sets the session fields from one response
ReplacedTogether ==
  \E body \in SessionResponses :
    /\ token' = body.token
    /\ identity' = body.identity
    /\ roomName' = body.room_name
    /\ livekitUrl' = body.livekit_url
    /\ callerPhone' # nullText

\* C16 as claimed: every step replaces the five session fields together,
\* clears the five together, or leaves the five unchanged.
C16_FiveTogether ==
  [][\/ UNCHANGED <<sessionFour, livekitUrl>>
     \/ ReplacedTogether
     \/ /\ token' = null /\ identity' = null /\ roomName' = null
        /\ callerPhone' = nullText /\ livekitUrl' = null]_vars

\* C16 amended: every step replaces the five session fields together
\* (setSession), or clears credential, identity, room name and caller phone
\* together and leaves the URL (clearSession), or leaves those four
\* unchanged; in the last case the URL changes only when the config fetch
\* settles, also after the session was set.
C16_FourTogether ==
  [][\/ UNCHANGED <<sessionFour, livekitUrl>>
     \/ ReplacedTogether
     \/ /\ token' = null /\ identity' = null /\ roomName' = null
        /\ callerPhone' = nullText /\ livekitUrl' = livekitUrl
     \/ /\ UNCHANGED sessionFour
        /\ configPending /\ ~configPending']_vars

\* C16 witness: the config fetch settled during a session that had already
\* taken an entry, and replaced the URL alone
C16_Witness ==
  /\ token = "t2"
  /\ identity = "id2"
  /\ roomName = "r2"
  /\ livekitUrl = "wss://cfg"
  /\ room.mounted
  /\ Len(transcripts) = 1

\* C17: in every state with a session set, no log holds an entry that was
\* appended before the session's setSession or that another room than the
\* one of the current session delivered: what the room of an earlier session
\* emits after it was replaced is written into no log.
C17_NoStaleLogs ==
  Truthy(token) => ~foreignEntries

\* C17 witness: a second session is held, its room has delivered an entry,
\* and the room of the session before it has then emitted an event that no
\* listener took
C17_Witness ==
  /\ token = "t2"
  /\ room.mounted
  /\ room.earlier
  /\ lastDropped = "detached"
  /\ Len(toolEvents) = 1
  /\ ~foreignEntries

\* the step in which requestSession settles with a failure
SessionFailureStep == FailedSettle("session")

\* C18: a step that issues fetchSummaries leaves a store with the session set
\* (credential present, connecting off) and asks for the caller phone of that
\* session; it is the step in which requestSession settles with success, or
\* a later refresh.  The step that issues requestSession and the step in
\* which requestSession fails issue no fetchSummaries.
C18_DependentCallOrdering ==
  [][/\ Len(summaryReqs') > Len(summaryReqs) =>
          /\ Truthy(token') /\ ~connecting'
          /\ summaryReqs'[Len(summaryReqs')].phone = callerPhone'
          /\ \/ Len(sessionReqs') < Len(sessionReqs) /\ transcripts' = <<>>
             \/ UNCHANGED <<storeVars, sessionReqs>>
     /\ Len(sessionReqs') > Len(sessionReqs) => UNCHANGED summaryReqs
     /\ SessionFailureStep => UNCHANGED summaryReqs /\ ~Truthy(token')]_vars

\* C18 witness: requestSession has settled with success for the phone
\* " 6 ", the session is set and the summary fetch for "6" is in flight
C18_Witness ==
  /\ token = "t1"
  /\ callerPhone = <<"6">>
  /\ sessionReqs = <<>>
  /\ Len(summaryReqs) = 1
  /\ summaryReqs[1].phone = <<"6">>
  /\ summaryLoading
  /\ lastSettled.call = "session"

\* the network result is a transport failure or a status outside 200..299
StatusFails(st) == st = NetFailure \/ ~ResponseOk(st)

\* r is an error outcome; for a non-success response it names the status
ErrorOutcome(r, st) ==
  /\ ~r.ok
  /\ r.isError
  /\ (st # NetFailure /\ ~ResponseOk(st)) => r.message = <<"API error", st>>

\* what the caller sees in the step in which its call settles: for the
\* network results that Fails names an error outcome (the config fetch leaves
\* the store, the connect attempt shows the error's message and holds no
\* credential, the summary fetch leaves the summary), for those that Succeeds
\* names a success value (which the caller puts into the store)
SessionClientContract(Fails(_), Succeeds(_)) ==
  lastSettled'.call # "none" =>
    LET c == lastSettled'
        st == c.status
        r == c.outcome
    IN /\ Fails(st) =>
            /\ ErrorOutcome(r, st)
            /\ c.call = "config" => UNCHANGED storeVars
            /\ c.call = "session" => error' = r.message /\ token' = null
            /\ c.call = "summaries" => UNCHANGED <<summary, error>>
       /\ Succeeds(st) =>
            /\ r.ok
            /\ (c.call = "config" /\ Truthy(r.value.livekit_url)) =>
                 livekitUrl' = r.value.livekit_url
            /\ c.call = "session" => token' = r.value.token /\ UNCHANGED error
            /\ c.call = "summaries" =>
                 summary' = (IF r.value = <<>> THEN null ELSE r.value[1])

\* C19 as claimed: for requestSession, fetchSummaries and fetchConfig, a
\* transport failure or a status outside the success range gives the caller
\* an error outcome that names the status, and every status of the success
\* range gives the caller a success value.
C19_SuccessRangeSucceeds ==
  [][SessionClientContract(StatusFails, ResponseOk)]_vars

\* the response is a success-range one whose body response.json() parses
ParsedSuccess(st) == ResponseOk(st) /\ st # NoContent

\* the call is rejected: transport failure, non-success status or a body
\* that response.json() does not parse
Rejected(st) == ~ParsedSuccess(st)

\* C19 amended: a transport failure, a status outside the success range and a
\* success-range response whose body does not parse (204 No Content) each
\* give the caller an error outcome, never a success value; the error of a
\* non-success status names the status; a success-range response whose body
\* parses gives the caller the parsed body.
C19_ErrorsReachCaller ==
  [][SessionClientContract(Rejected, ParsedSuccess)]_vars

\* C19 witness: requestSession was answered 204 No Content; the connect
\* attempt ended with the parse error shown and no session
C19_Witness ==
  /\ lastSettled.call = "session"
  /\ lastSettled.status = NoContent
  /\ error = <<"Unexpected end of JSON input">>
  /\ token = null
  /\ ~connecting

\* C20: in every state the entries of the transcript log carry pairwise
\* distinct itemId values, whatever transcript events came in, events that
\* carry the same id included.
C20_ItemIdsDistinct ==
  \A i, j \in 1..Len(transcripts) :
    transcripts[i].itemId = transcripts[j].itemId => i = j

\* the step in which the config fetch settles with a connection URL, the
\* one step that calls setLivekitUrl
SetLivekitUrlStep ==
  /\ lastSettled'.call = "config"
  /\ lastSettled'.outcome.ok
  /\ Truthy(lastSettled'.outcome.value.livekit_url)

\* C21: setLivekitUrl sets the connection URL to the value it is given and
\* leaves token, identity, roomName, callerPhone, connecting, both logs and
\* the summary as they were.
C21_SetLivekitUrlFrame ==
  [][SetLivekitUrlStep =>
       /\ livekitUrl' = lastSettled'.outcome.value.livekit_url
       /\ UNCHANGED <<token, identity, roomName, callerPhone, connecting,
                      transcripts, toolEvents, summary>>]_vars

\* C21 witness: the config fetch has just delivered its URL while a connect
\* attempt was in flight; the attempt is still connecting
C21_Witness ==
  /\ lastSettled.call = "config"
  /\ livekitUrl = "wss://cfg"
  /\ connecting
  /\ Len(sessionReqs) = 1

\* both bridge listeners are attached, or neither is, and they are attached
\* only while the store holds a credential and a connection URL
PairedWhileConnected ==
  /\ listeners \in { {}, {"TranscriptionReceived", "DataReceived"} }
  /\ listeners # {} => connected(Store)

\* the step unmounts <LiveKitRoom>: the room membership is torn down
Teardown == room.mounted /\ ~room'.mounted

\* C22: in every state the two bridge listeners are both attached or both
\* detached, and attached only while token and connection URL are present;
\* a step that tears the room membership down finds both attached and leaves
\* both detached, and no other step detaches a listener.
C22_PairedLifecycle ==
  [][/\ PairedWhileConnected
     /\ PairedWhileConnected'
     /\ Teardown => /\ listeners = {"TranscriptionReceived", "DataReceived"}
                    /\ listeners' = {}
     /\ (listeners' # listeners /\ listeners' = {}) => Teardown
     /\ staleListeners' = {}]_vars

\* C22 witness: after a teardown a second room membership exists and both
\* listeners are attached to its room, none to the room before it
C22_Witness ==
  /\ room.mounted
  /\ room.earlier
  /\ token = "t1"
  /\ listeners = {"TranscriptionReceived", "DataReceived"}
  /\ staleListeners = {}

\* the step issues requestSession: a connect attempt starts
ConnectStarts == Len(sessionReqs') > Len(sessionReqs)

\* the step in which requestSession settles with success and setSession is
\* applied
SetSessionStep == lastSettled'.call = "session" /\ lastSettled'.outcome.ok

\* C23: a connect attempt starts only where no credential is held, connecting
\* is off and no requestSession is in flight; at most one requestSession is
\* in flight in every state; setSession is applied only where no credential
\* is held.
C23_OneSessionAtATime ==
  [][/\ Len(sessionReqs) <= 1
     /\ Len(sessionReqs') <= 1
     /\ ConnectStarts => /\ token = null
                         /\ ~connecting
                         /\ sessionReqs = <<>>
     /\ SetSessionStep => token = null /\ connecting]_vars

\* C23 witness: after a session was held and ended, a new connect attempt is
\* in flight, alone
C23_Witness ==
  /\ room.name # null
  /\ ~room.mounted
  /\ token = null
  /\ connecting
  /\ Len(sessionReqs) = 1

\* C24: in every state with a summary in the store a session is set: a
\* summary fetch that settles after the session it was issued in has ended
\* writes nothing into the store.
C24_SummaryScoped ==
  summary # null => Truthy(token)

\* C25: when every requestSession in flight eventually settles, every state
\* with connecting on is followed by a state with connecting off; and
\* connecting is on only while the attempt's requestSession is in flight, so
\* it is not left on when the attempt has ended.
C25_ConnectTerminates ==
  /\ [](connecting => sessionReqs # <<>>)
  /\ connecting ~> ~connecting

\* C25 witness: a second connect attempt has ended with setSession and
\* connecting is off again
C25_Witness ==
  /\ lastSettled.call = "session"
  /\ lastSettled.outcome.ok
  /\ token = "t2"
  /\ room.earlier
  /\ ~connecting
  /\ sessionReqs = <<>>

\* the text holds nothing but blanks: it is empty after trimming
Blank(text) == \A k \in 1..Len(text) : text[k] = " "

\* C26: when the display name or the phone number of the form is empty after
\* trimming, handleConnect shows the validation error, issues neither
\* requestSession nor fetchSummaries, does not set connecting and leaves
\* every field of the store as it was.
C26_ValidationNoOp ==
  [][(/\ Blank(displayName) \/ Blank(phoneNumber)
      /\ ~FormDisabled
      /\ lastSettled'.call = "none"
      /\ HandleConnect) =>
       /\ error' = <<"Display name and phone are required">>
       /\ UNCHANGED <<sessionReqs, summaryReqs>>
       /\ ~connecting'
       /\ UNCHANGED storeVars]_vars

\* C26 witness: a connect was tried with a blank display name after the
\* config fetch had delivered its URL; the error is shown, the URL is in
\* place and nothing is in flight
C26_Witness ==
  /\ error = <<"Display name and phone are required">>
  /\ displayName = <<" ">>
  /\ phoneNumber = <<" ", "6", " ">>
  /\ livekitUrl = "wss://cfg"
  /\ token = null
  /\ ~connecting
  /\ sessionReqs = <<>>
  /\ summaryReqs = <<>>

====
